---- MODULE Spec2Model ----
(***************************************************************************)
(* Model of src/app.py: the stop aggregator get_route_stops (sequence      *)
(* reconciliation, sort, filter) and its disk cache, the proximity matcher *)
(* find_nearby_gigs_for_stops and the directional handler show_gigs_ahead. *)
(*                                                                         *)
(* A Python dict is a TLA+ function whose DOMAIN is the set of keys the    *)
(* dict holds: d.get(k) is None exactly when k \notin DOMAIN d.  Upstream  *)
(* JSON fields are either absent or hold a number (no JSON null).          *)
(***************************************************************************)
EXTENDS Integers, Sequences, FiniteSets, TLC

VARIABLES
    pc,                 \* position of the running request handler
    directions,         \* directions_data['directions'] (direction ids)
    dir_idx,            \* index of the direction the for loop is at
    sequence_map,       \* sequence_map of the current direction
    stops,              \* stops list of the current direction
    stop_idx,           \* index of the stop the enrichment loop is at
    stops_by_direction, \* stops_data['stops_by_direction']
    retval,             \* what get_route_stops returned
    pattern_status,     \* outcome of the last pattern fetch
    stops_status,       \* outcome of the last stop-list fetch
    details_status,     \* outcome of the last get_stop_details call
    fetched,            \* number of stops listed so far in this call
    details_overlay,    \* whether upstream's stop details repeat listing fields
    gigs,               \* what get_todays_gigs returned
    request,            \* stop_id and direction_id of a gigs_ahead request
    all_stops,          \* the stops handed to find_nearby_gigs_for_stops
    view,               \* what the gigs handler produced
    examined,           \* the stops whose surroundings were searched for gigs
    cache,              \* the route-stops files of the cache directory
    now,                \* datetime.now(), in hours
    call                \* the running get_route_stops call: its cache key,
                        \* the cache and the clock it found, its requests

routeVars == <<directions, dir_idx, sequence_map, stops, stop_idx,
               pattern_status, stops_status, details_status, fetched,
               details_overlay>>

gigVars == <<gigs, request, all_stops, view, examined>>

cacheVars == <<cache, now, call>>

vars == <<pc, stops_by_direction, retval, routeVars, gigVars, cacheVars>>

----------------------------------------------------------------------------
(* Bounds of the model *)

\* at most this many directions in a directions response
MaxDirs == 2
\* at most this many stops listed over all directions of one call
MaxStops == 2
\* at most this many departures in a pattern response
MaxDeps == 2
\* the clock advances at most this many times
MaxTicks == 3

\* stop identifiers upstream responses use
StopIds == {1, 2}
\* stop_sequence values of a stop listing (the key may also be absent)
RawSeqs == {-1, 0, 1, 2}

----------------------------------------------------------------------------
(* Program constants *)

\* the value that marks a stop with no determinable order
Sentinel == 999999
\* expiry_hours of get_cached_data
ExpiryHours == 24

----------------------------------------------------------------------------
(* Dict helpers *)

\* dict.update(other): every key of other overlays the key of d
DictUpdate(d, other) ==
    [k \in (DOMAIN d) \cup (DOMAIN other) |->
        IF k \in DOMAIN other THEN other[k] ELSE d[k]]

\* d[k] = v on a dict (the key is created when missing)
DictSet(d, k, v) ==
    [j \in (DOMAIN d) \cup {k} |-> IF j = k THEN v ELSE d[j]]

\* the empty dict
EmptyMap == [k \in {} |-> 0]

----------------------------------------------------------------------------
(* Upstream responses *)

\* a direction of the route: direction_name is a function of the id
DirectionName(d) == <<"towards", d>>

\* departures of a pattern response; stop_id or stop_sequence may be absent
Departures ==
    { [stop_id |-> 1, stop_sequence |-> 3],
      [stop_id |-> 2, stop_sequence |-> 1],
      [stop_id |-> 2],
      [stop_sequence |-> 2] }

RECURSIVE SeqsUpTo(_, _)
\* all sequences over S of length at most n
SeqsUpTo(S, n) ==
    IF n = 0 THEN {<<>>}
    ELSE LET shorter == SeqsUpTo(S, n - 1)
         IN  shorter \cup { Append(q, x) : q \in shorter, x \in S }

\* the stops of a stop listing with identifier in I and stop_sequence in R,
\* or without the key
StopsWith(I, R) ==
    { [stop_id |-> i, stop_name |-> "stop", stop_sequence |-> r,
       stop_latitude |-> -378136, stop_longitude |-> 1449631]
        : i \in I, r \in R }
    \cup
    { [stop_id |-> i, stop_name |-> "stop",
       stop_latitude |-> -378136, stop_longitude |-> 1449631]
        : i \in I }

\* a stop of a stop listing: every raw sequence for stop 1 when the details
\* are plain, fewer when the details repeat listing fields
ListedStops(overlay) ==
    IF overlay THEN StopsWith({1}, {1})
    ELSE StopsWith({1}, RawSeqs) \cup StopsWith({2}, {2})

\* the 'stop' record of a stop-details response: always the station type,
\* and, when the details repeat listing fields, one of those fields
DetailsRecords(overlay) ==
    IF overlay
    THEN { [station_type |-> "tram", stop_id |-> 2],
           [station_type |-> "tram", stop_sequence |-> 2],
           [station_type |-> "tram", direction_id |-> 0,
            direction_name |-> DirectionName(0)] }
    ELSE { [station_type |-> "tram"] }

----------------------------------------------------------------------------
(* get_route_stops: pure parts *)

RECURSIVE BuildSequenceMap(_, _)
\* the loop over pattern_data['departures'] that fills sequence_map
BuildSequenceMap(m, departures) ==
    IF departures = <<>> THEN m
    ELSE LET departure == Head(departures)
             next == IF "stop_id" \in DOMAIN departure
                        /\ "stop_sequence" \in DOMAIN departure
                     THEN DictSet(m, departure.stop_id, departure.stop_sequence)
                     ELSE m
         IN  BuildSequenceMap(next, Tail(departures))

\* a positive raw sequence is preferred to the pattern sequence
AbsoluteSequenceRawFirst(map, stop) ==
    IF "stop_sequence" \in DOMAIN stop /\ stop.stop_sequence > 0
    THEN stop.stop_sequence
    ELSE IF stop.stop_id \in DOMAIN map THEN map[stop.stop_id] ELSE Sentinel

\* the raw sequence is never used
AbsoluteSequencePatternOnly(map, stop) ==
    IF stop.stop_id \in DOMAIN map THEN map[stop.stop_id] ELSE Sentinel

\* the absolute sequence of an enriched stop: the pattern sequence of its
\* identifier, else its positive raw sequence, else the sentinel
AbsoluteSequence(map, stop) ==
    IF stop.stop_id \in DOMAIN map
    THEN map[stop.stop_id]
    ELSE IF "stop_sequence" \in DOMAIN stop /\ stop.stop_sequence > 0
         THEN stop.stop_sequence
         ELSE Sentinel

\* stop['direction_id'] = ...; stop['direction_name'] = ...
WithDirection(stop, d) ==
    DictSet(DictSet(stop, "direction_id", d), "direction_name", DirectionName(d))

\* stop.update(stop_details['stop'])
Enrich(stop, details) == DictUpdate(stop, details)

\* stop['absolute_sequence'] = ...
Reconcile(map, stop) ==
    DictSet(stop, "absolute_sequence", AbsoluteSequence(map, stop))

RECURSIVE InsertSorted(_, _)
\* s with stop x put after the last stop whose key is not larger
InsertSorted(s, x) ==
    IF s = <<>> THEN <<x>>
    ELSE IF s[Len(s)].absolute_sequence <= x.absolute_sequence
         THEN Append(s, x)
         ELSE Append(InsertSorted(SubSeq(s, 1, Len(s) - 1), x), s[Len(s)])

\* the list is left in listing order
SortStopsListingOrder(s) == s

RECURSIVE SortStops(_)
\* stops.sort(key=lambda x: x['absolute_sequence']), a stable sort
SortStops(s) ==
    IF s = <<>> THEN <<>>
    ELSE InsertSorted(SortStops(SubSeq(s, 1, Len(s) - 1)), s[Len(s)])

\* no stop is filtered out
ValidStopsUnfiltered(s) == s

\* [s for s in stops if s['absolute_sequence'] != 999999]
ValidStops(s) == SelectSeq(s, LAMBDA x : x.absolute_sequence /= Sentinel)

----------------------------------------------------------------------------
(* The disk cache *)

\* the characters of the decimal digits
DigitChars == <<"0", "1", "2", "3", "4", "5", "6", "7", "8", "9">>

RECURSIVE Digits(_)
\* str(n) of a natural number, character by character
Digits(n) ==
    IF n < 10 THEN <<DigitChars[n + 1]>>
    ELSE Append(Digits(n \div 10), DigitChars[(n % 10) + 1])

\* cache_key = f'stops_route_{route_id}_{route_type}', as its characters
\* (the prefix taken whole)
CacheKey(route_id, route_type) ==
    <<"stops_route_">> \o Digits(route_id) \o <<"_">> \o Digits(route_type)

\* a snapshot counts as fresh up to and including the expiry age
IsFreshInclusive(timestamp, t) == t - timestamp <= ExpiryHours

\* datetime.now() - cached_data['timestamp'] < timedelta(hours=expiry_hours)
IsFresh(timestamp, t) == t - timestamp < ExpiryHours

\* get_cached_data(key) at time t: <<data>>, or <<>> for None.  A file that
\* a failed write left behind makes pickle.load raise, which gives None.
get_cached_data(files, key, t) ==
    IF /\ key \in DOMAIN files
       /\ files[key].intact
       /\ IsFresh(files[key].timestamp, t)
    THEN <<files[key].data>>
    ELSE <<>>

\* the file save_to_cache(key, data) writes at time t
Snapshot(data, t) == [intact |-> TRUE, timestamp |-> t, data |-> data]

\* the file an interrupted pickle.dump leaves behind
BrokenFile == [intact |-> FALSE, timestamp |-> 0, data |-> <<>>]

\* save_to_cache(key, data) at time t: the file is written, or open()
\* raises and nothing changes, or pickle.dump raises on the opened file
save_to_cache(files, key, data, t) ==
    { DictSet(files, key, Snapshot(data, t)),
      files,
      DictSet(files, key, BrokenFile) }

\* the bookkeeping of a get_route_stops call that starts at time t
CallOf(key, files, t) ==
    [key |-> key, checked_at |-> t, before |-> files, upstream |-> 0]

\* no call has started
NoCall == CallOf(<<>>, EmptyMap, 0)

\* an empty cache directory and no call
CacheIdle ==
    /\ cache = EmptyMap
    /\ now = 0
    /\ call = NoCall

----------------------------------------------------------------------------
(* get_route_stops: the handler, step by step *)

\* no gigs handler has run
NoView == [error |-> "", current_stop |-> <<>>, stops_with_gigs |-> <<>>,
           any_gigs_found |-> FALSE]

\* the gigs handlers' variables before any handler has run
GigsIdle ==
    /\ gigs = [failed |-> FALSE, list |-> <<>>]
    /\ request = [stop_id |-> 0, direction_id |-> 0]
    /\ all_stops = <<>>
    /\ view = NoView
    /\ examined = <<>>

\* the locals of get_route_stops before the call
RouteIdle ==
    /\ directions = <<>>
    /\ dir_idx = 0
    /\ sequence_map = EmptyMap
    /\ stops = <<>>
    /\ stop_idx = 0
    /\ pattern_status = "none"
    /\ stops_status = "none"
    /\ details_status = "none"
    /\ fetched = 0

Init ==
    /\ pc = "start"
    /\ RouteIdle
    /\ stops_by_direction = EmptyMap
    /\ retval = "pending"
    /\ details_overlay \in BOOLEAN
    /\ GigsIdle
    /\ cache = EmptyMap
    /\ now = 0
    /\ call = CallOf(CacheKey(1, 0), cache, now)

\* the directions lookup and the construction of stops_data
GetDirections ==
    /\ pc = "start"
    /\ \/ \* no directions data, or no 'directions' key in it
          /\ retval' = "None"
          /\ pc' = "done"
          /\ UNCHANGED <<directions, dir_idx>>
       \/ \E n \in 0..MaxDirs :
             /\ directions' = [i \in 1..n |-> i]
             /\ dir_idx' = 1
             /\ pc' = IF n = 0 THEN "save" ELSE "pattern"
             /\ UNCHANGED retval
    /\ UNCHANGED <<sequence_map, stops, stop_idx, stops_by_direction,
                   pattern_status, stops_status, details_status, fetched,
                   details_overlay>>
    /\ UNCHANGED <<gigVars, cacheVars>>

\* a pattern request that raises makes the call return None
PatternFetchAborts ==
    /\ pattern_status' = "failed"
    /\ retval' = "None"
    /\ pc' = "done"
    /\ UNCHANGED sequence_map

\* the pattern request raises: the except branch leaves an empty map
PatternFetchFailed ==
    /\ pattern_status' = "failed"
    /\ sequence_map' = EmptyMap
    /\ pc' = "stops"
    /\ UNCHANGED retval

\* the pattern fetch of the current direction
FetchPattern ==
    /\ pc = "pattern"
    /\ \/ PatternFetchFailed
       \/ \* a response without 'departures'
          /\ pattern_status' = "ok"
          /\ sequence_map' = EmptyMap
          /\ pc' = "stops"
          /\ UNCHANGED retval
       \/ \E departures \in SeqsUpTo(Departures, MaxDeps) :
             /\ pattern_status' = "ok"
             /\ sequence_map' = BuildSequenceMap(EmptyMap, departures)
             /\ pc' = "stops"
             /\ UNCHANGED retval
    /\ UNCHANGED <<directions, dir_idx, stops, stop_idx, stops_by_direction,
                   stops_status, details_status, fetched, details_overlay>>
    /\ UNCHANGED <<gigVars, cacheVars>>

\* the next iteration of the loop over directions, or the end of the loop
NextDirection == IF dir_idx < Len(directions) THEN "pattern" ELSE "save"

\* a stop-list request that raises is skipped like a response without stops
StopsFetchSkips ==
    /\ stops_status' = "failed"
    /\ pc' = NextDirection
    /\ dir_idx' = dir_idx + 1
    /\ UNCHANGED <<stops, stop_idx, retval, fetched>>

\* the stop-list request raises: the except branch returns None
StopsFetchFailed ==
    /\ stops_status' = "failed"
    /\ retval' = "None"
    /\ pc' = "done"
    /\ UNCHANGED <<stops, stop_idx, dir_idx, fetched>>

\* the stop-list fetch of the current direction
FetchStops ==
    /\ pc = "stops"
    /\ \/ StopsFetchFailed
       \/ \* a response without 'stops': a warning, nothing stored
          /\ stops_status' = "no_stops"
          /\ pc' = NextDirection
          /\ dir_idx' = dir_idx + 1
          /\ UNCHANGED <<stops, stop_idx, retval, fetched>>
       \/ \E listing \in SeqsUpTo(ListedStops(details_overlay),
                                  MaxStops - fetched) :
             /\ stops_status' = "ok"
             /\ stops' = listing
             /\ stop_idx' = 1
             /\ fetched' = fetched + Len(listing)
             /\ pc' = IF listing = <<>> THEN "sort" ELSE "enrich"
             /\ UNCHANGED <<retval, dir_idx>>
    /\ UNCHANGED <<directions, sequence_map, stops_by_direction,
                   pattern_status, details_status, details_overlay>>
    /\ UNCHANGED <<gigVars, cacheVars>>

\* the body of the loop over stops: direction fields, details, sequence
EnrichedStop(map, stop, d, status, details) ==
    LET directed == WithDirection(stop, d)
        enriched == IF status = "ok" THEN Enrich(directed, details) ELSE directed
    IN  Reconcile(map, enriched)

\* one iteration of the loop over stops; get_stop_details returns None
\* ("failed"), data without 'stop' ("no_stop") or data with a stop record
EnrichStop ==
    /\ pc = "enrich"
    /\ \E status \in {"failed", "no_stop", "ok"} :
       \E details \in DetailsRecords(details_overlay) :
          /\ details_status' = status
          /\ stops' = [stops EXCEPT ![stop_idx] =
                         EnrichedStop(sequence_map, stops[stop_idx],
                                      directions[dir_idx], status, details)]
    /\ stop_idx' = stop_idx + 1
    /\ pc' = IF stop_idx = Len(stops) THEN "sort" ELSE "enrich"
    /\ UNCHANGED <<directions, dir_idx, sequence_map, stops_by_direction,
                   retval, pattern_status, stops_status, fetched,
                   details_overlay>>
    /\ UNCHANGED <<gigVars, cacheVars>>

\* sort, filter, store under the direction id.  The list stops is a local
\* of the iteration and is dead once the valid stops are stored.
SortAndStore ==
    /\ pc = "sort"
    /\ stops_by_direction' =
           DictSet(stops_by_direction, directions[dir_idx],
                   ValidStops(SortStops(stops)))
    /\ stops' = <<>>
    /\ stop_idx' = 0
    /\ details_status' = "none"
    /\ pc' = NextDirection
    /\ dir_idx' = dir_idx + 1
    /\ UNCHANGED <<directions, sequence_map, retval, pattern_status,
                   stops_status, fetched, details_overlay>>
    /\ UNCHANGED <<gigVars, cacheVars>>

\* the stops_data dict (route_name, a display string, is left out)
StopsData ==
    [stops_by_direction |-> stops_by_direction, directions |-> directions]

\* save_to_cache(cache_key, stops_data) and return stops_data
ReturnStopsData ==
    /\ pc = "save"
    /\ cache' \in save_to_cache(cache, call.key, StopsData, now)
    /\ retval' = "stops_data"
    /\ pc' = "done"
    /\ UNCHANGED <<directions, dir_idx, sequence_map, stops, stop_idx,
                   stops_by_direction, pattern_status, stops_status,
                   details_status, fetched, details_overlay>>
    /\ UNCHANGED <<gigVars, now, call>>

Next ==
    \/ GetDirections
    \/ FetchPattern
    \/ FetchStops
    \/ EnrichStop
    \/ SortAndStore
    \/ ReturnStopsData

Spec == Init /\ [][Next]_vars

----------------------------------------------------------------------------
(* Properties of get_route_stops *)

\* the stops of the current direction that the loop has reconciled
Reconciled ==
    IF pc \in {"enrich", "sort"}
    THEN { stops[i] : i \in 1..(stop_idx - 1) }
    ELSE {}

\* the stop carries a raw sequence number
HasRaw(stop) == "stop_sequence" \in DOMAIN stop

\* every stop stored under some direction
StoredStops ==
    UNION { { stops_by_direction[d][i] : i \in 1..Len(stops_by_direction[d]) }
              : d \in DOMAIN stops_by_direction }

\* C1: a stop whose identifier has an entry in the direction's pattern
\* sequence map gets that pattern sequence as its absolute_sequence,
\* whatever its raw stop_sequence is
C1_PatternSequenceWins ==
    \A stop \in Reconciled :
        stop.stop_id \in DOMAIN sequence_map
            => stop.absolute_sequence = sequence_map[stop.stop_id]

\* two reconciled stops took their pattern sequence: one has no raw
\* sequence or a raw sequence <= 0, the other a different positive one
C1_Witness ==
    /\ pc = "sort"
    /\ \E s, t \in Reconciled :
          /\ s.stop_id \in DOMAIN sequence_map
          /\ t.stop_id \in DOMAIN sequence_map
          /\ ~HasRaw(s) \/ s.stop_sequence <= 0
          /\ HasRaw(t) /\ t.stop_sequence > 0
          /\ t.stop_sequence /= sequence_map[t.stop_id]
          /\ s.absolute_sequence = sequence_map[s.stop_id]
          /\ t.absolute_sequence = sequence_map[t.stop_id]

C3_SentinelExcluded ==
    /\ \A stop \in Reconciled :
          (stop.stop_id \notin DOMAIN sequence_map
              /\ (~HasRaw(stop) \/ stop.stop_sequence <= 0))
              => stop.absolute_sequence = Sentinel
    /\ \A stop \in StoredStops : stop.absolute_sequence /= Sentinel

\* number of stops stored over all directions
RECURSIVE StoredCount(_)
StoredCount(D) ==
    IF D = {} THEN 0
    ELSE LET d == CHOOSE x \in D : TRUE
         IN  Len(stops_by_direction[d]) + StoredCount(D \ {d})

\* a call returned a result in which one listed stop is kept and one,
\* without determinable order, is dropped
C3_Witness ==
    /\ pc = "done"
    /\ retval = "stops_data"
    /\ fetched = 2
    /\ StoredCount(DOMAIN stops_by_direction) = 1

\* C4: in every direction's list the stops are in ascending order of
\* absolute_sequence
C4_SortedAscending ==
    \A d \in DOMAIN stops_by_direction :
        \A i \in 1..(Len(stops_by_direction[d]) - 1) :
            stops_by_direction[d][i].absolute_sequence
                <= stops_by_direction[d][i + 1].absolute_sequence

\* a returned direction whose two stops follow the pattern values upwards
\* and their raw values downwards
C4_Witness ==
    /\ pc = "done"
    /\ retval = "stops_data"
    /\ \E d \in DOMAIN stops_by_direction :
          LET list == stops_by_direction[d]
          IN  /\ Len(list) = 2
              /\ list[1].absolute_sequence < list[2].absolute_sequence
              /\ HasRaw(list[1]) /\ HasRaw(list[2])
              /\ list[1].stop_sequence > list[2].stop_sequence

\* C5: once the stop-list fetch of a direction has failed the call is over
\* and has returned None, so no result with the directions fetched before
\* is returned
C5_StopsFailureAborts ==
    stops_status = "failed" => (pc = "done" /\ retval = "None")

\* the stop-list fetch of the second direction failed after the first
\* direction's stops had been stored
C5_Witness ==
    /\ stops_status = "failed"
    /\ retval = "None"
    /\ dir_idx = 2
    /\ 1 \in DOMAIN stops_by_direction
    /\ Len(stops_by_direction[1]) > 0

\* C6: a failed pattern fetch leaves an empty sequence map (every stop of
\* the direction falls back to its raw sequence), a failed details fetch
\* leaves the stop un-enriched, and neither makes the call return None:
\* None is returned only without directions or after a failed stop-list fetch
C6_NonFatalFailures ==
    /\ pattern_status = "failed" =>
          /\ DOMAIN sequence_map = {}
          /\ \A stop \in Reconciled :
                stop.absolute_sequence =
                    IF HasRaw(stop) /\ stop.stop_sequence > 0
                    THEN stop.stop_sequence ELSE Sentinel
    /\ (details_status = "failed" /\ pc \in {"enrich", "sort"}) =>
          /\ "station_type" \notin DOMAIN stops[stop_idx - 1]
          /\ stops[stop_idx - 1].direction_id = directions[dir_idx]
          /\ retval = "pending"
    /\ retval = "None" =>
          /\ pc = "done"
          /\ dir_idx = 0 \/ stops_status = "failed"

\* in the second direction the pattern fetch failed and the details fetch
\* of the last stop failed, and the loop over the stops has ended; the
\* first direction's stop was enriched
C6_Witness ==
    /\ pc = "sort"
    /\ dir_idx = 2
    /\ pattern_status = "failed"
    /\ details_status = "failed"
    /\ Len(stops) = 1
    /\ stops[1].absolute_sequence = 2
    /\ 1 \in DOMAIN stops_by_direction
    /\ Len(stops_by_direction[1]) = 1
    /\ "station_type" \in DOMAIN stops_by_direction[1][1]

----------------------------------------------------------------------------
(* Geo Distance Calculator *)

\* the grid points of the model, in 1/10000 degree
Latitudes == <<-378136, -378140, -378170, -378181, -378300>>
Longitudes == <<1449631, 1449633, 1449660, 1449631, 1449800>>
Points == DOMAIN Latitudes

\* the grid point with the given coordinates
PointAt(lat, lon) ==
    CHOOSE p \in Points : Latitudes[p] = lat /\ Longitudes[p] = lon

\* the haversine distance with R = 6371000 between the grid points, in
\* millimetres (the value of the formula of calculate_distance, rounded)
HaversineMM ==
    << <<0, 47822, 455880, 500377, 2351382>>,
       <<47822, 0, 409306, 456238, 2305840>>,
       <<455880, 409306, 0, 282581, 1897800>>,
       <<500377, 456238, 282581, 0, 1988534>>,
       <<2351382, 2305840, 1897800, 1988534, 0>> >>

\* calculate_distance(lat1, lon1, lat2, lon2), in millimetres
calculate_distance(lat1, lon1, lat2, lon2) ==
    HaversineMM[PointAt(lat1, lon1)][PointAt(lat2, lon2)]

\* the radius of "nearby", in metres
NearbyRadius == 500

\* the radius is taken ten times too wide
WithinRadiusWide(distance) == distance <= NearbyRadius * 10000

\* distance <= 500, the distance being in millimetres
WithinRadius(distance) == distance <= NearbyRadius * 1000

----------------------------------------------------------------------------
(* Proximity Matcher *)

\* a venue at a grid point, and venues that lack a coordinate
VenueAt(p) ==
    [name |-> "venue", latitude |-> Latitudes[p], longitude |-> Longitudes[p]]
VenuesWithoutCoordinates ==
    { [name |-> "venue"],
      [name |-> "venue", latitude |-> Latitudes[2]],
      [name |-> "venue", longitude |-> Longitudes[2]] }
Venues == { VenueAt(p) : p \in Points } \cup VenuesWithoutCoordinates

\* the gigs response with these venues; a gig is named by its position
GigsAt(venues) == [j \in 1..Len(venues) |-> [name |-> j, venue |-> venues[j]]]

\* 'latitude' in venue and 'longitude' in venue
HasCoordinates(venue) ==
    "latitude" \in DOMAIN venue /\ "longitude" \in DOMAIN venue

\* the distance from a stop to a venue that has coordinates
StopDistance(stop, venue) ==
    calculate_distance(stop.stop_latitude, stop.stop_longitude,
                       venue.latitude, venue.longitude)

RECURSIVE NearbyGigs(_, _)
\* the loop over gigs: copies of the gigs within the radius of the stop,
\* each with its distance, in the order of the gigs list
NearbyGigs(stop, list) ==
    IF list = <<>> THEN <<>>
    ELSE LET gig == list[Len(list)]
             before == NearbyGigs(stop, SubSeq(list, 1, Len(list) - 1))
         IN  IF HasCoordinates(gig.venue)
                /\ WithinRadius(StopDistance(stop, gig.venue))
             THEN Append(before,
                         DictSet(gig, "distance_meters",
                                 StopDistance(stop, gig.venue)))
             ELSE before

RECURSIVE InsertGig(_, _)
\* s with gig x put after the last gig that is not farther
InsertGig(s, x) ==
    IF s = <<>> THEN <<x>>
    ELSE IF s[Len(s)].distance_meters <= x.distance_meters
         THEN Append(s, x)
         ELSE Append(InsertGig(SubSeq(s, 1, Len(s) - 1), x), s[Len(s)])

RECURSIVE SortGigs(_)
\* sorted(nearby_gigs, key=lambda x: x['distance_meters']), a stable sort
SortGigs(s) ==
    IF s = <<>> THEN <<>>
    ELSE InsertGig(SortGigs(SubSeq(s, 1, Len(s) - 1)), s[Len(s)])

\* every stop is kept, with or without nearby gigs
KeepsStopAlways(nearby) == TRUE

\* if nearby_gigs: the stop is annotated and kept
KeepsStop(nearby) == nearby /= <<>>

\* the stop after the search: stop['nearby_gigs'] is set when gigs are near
Searched(stop, list) ==
    LET nearby == NearbyGigs(stop, list)
    IN  IF KeepsStop(nearby)
        THEN DictSet(stop, "nearby_gigs", SortGigs(nearby))
        ELSE stop

\* whether the search of the stop appends it to stops_with_gigs
Kept(stop, list) == KeepsStop(NearbyGigs(stop, list))

\* find_nearby_gigs_for_stops(stops, gigs): the stops after the call (they
\* are annotated in place), stops_with_gigs and any_gigs_found
find_nearby_gigs_for_stops(stop_list, list) ==
    LET searched == [i \in 1..Len(stop_list) |-> Searched(stop_list[i], list)]
        kept == SelectSeq([i \in 1..Len(stop_list) |-> i],
                          LAMBDA i : Kept(stop_list[i], list))
    IN  [stops |-> searched,
         stops_with_gigs |-> [k \in 1..Len(kept) |-> searched[kept[k]]],
         any_gigs_found |-> \E i \in 1..Len(stop_list) : Kept(stop_list[i], list)]

\* at most this many gigs in a gigs response
MaxGigs == 3

\* a stop at a grid point, as find_nearby_gigs_for_stops reads it
StopAt(p) ==
    [stop_id |-> p, stop_name |-> "stop",
     stop_latitude |-> Latitudes[p], stop_longitude |-> Longitudes[p]]

\* a call of find_nearby_gigs_for_stops is about to run
InitNearby ==
    /\ pc = "nearby"
    /\ RouteIdle
    /\ CacheIdle
    /\ stops_by_direction = EmptyMap
    /\ retval = "pending"
    /\ details_overlay = FALSE
    /\ request = [stop_id |-> 0, direction_id |-> 0]
    /\ view = NoView
    /\ examined = <<>>
    /\ all_stops \in SeqsUpTo({ StopAt(p) : p \in {1, 3, 5} }, MaxStops)
    /\ \E venues \in SeqsUpTo(Venues, MaxGigs) :
          gigs = [failed |-> FALSE, list |-> GigsAt(venues)]

\* the call find_nearby_gigs_for_stops(all_stops, gigs)
FindNearbyGigsForStops ==
    /\ pc = "nearby"
    /\ LET found == find_nearby_gigs_for_stops(all_stops, gigs.list)
       IN  /\ all_stops' = found.stops
           /\ view' = [NoView EXCEPT
                         !.stops_with_gigs = found.stops_with_gigs,
                         !.any_gigs_found = found.any_gigs_found]
    /\ examined' = [i \in 1..Len(all_stops) |-> i]
    /\ pc' = "nearby_done"
    /\ UNCHANGED <<stops_by_direction, retval, routeVars, gigs, request,
                   cacheVars>>

NextNearby == FindNearbyGigsForStops

SpecNearby == InitNearby /\ [][NextNearby]_vars

----------------------------------------------------------------------------
(* Properties of find_nearby_gigs_for_stops *)

\* the nearby_gigs list of a stop, empty when the key was never set
NearbyListOf(stop) ==
    IF "nearby_gigs" \in DOMAIN stop THEN stop.nearby_gigs ELSE <<>>

\* gig j of the gigs list has venue coordinates within 500 m of stop i
IsNear(i, j) ==
    LET venue == gigs.list[j].venue
        stop == all_stops[i]
    IN  /\ "latitude" \in DOMAIN venue
        /\ "longitude" \in DOMAIN venue
        /\ HaversineMM[PointAt(stop.stop_latitude, stop.stop_longitude)]
                      [PointAt(venue.latitude, venue.longitude)]
              <= NearbyRadius * 1000

\* C7: after find_nearby_gigs_for_stops a gig is in a stop's nearby_gigs
\* list (once) if and only if its venue has latitude and longitude and is
\* at most 500 m from the stop, and every nearby_gigs list is in ascending
\* order of distance_meters
C7_NearbyExactlyWithinRadius ==
    pc = "nearby_done" =>
        \A i \in 1..Len(all_stops) :
            LET nearby == NearbyListOf(all_stops[i])
            IN  /\ \A j \in 1..Len(gigs.list) :
                      IsNear(i, j) <=>
                          \E k \in 1..Len(nearby) : nearby[k].name = j
                /\ \A k, l \in 1..Len(nearby) :
                      k /= l => nearby[k].name /= nearby[l].name
                /\ \A k \in 1..Len(nearby) :
                      /\ nearby[k].name \in 1..Len(gigs.list)
                      /\ nearby[k].venue = gigs.list[nearby[k].name].venue
                /\ \A k \in 1..(Len(nearby) - 1) :
                      nearby[k].distance_meters <= nearby[k + 1].distance_meters

\* of three gigs a stop got the third and the first, the nearer one first,
\* and not the second, whose venue has no longitude; another stop got none
C7_Witness ==
    /\ pc = "nearby_done"
    /\ Len(gigs.list) = 3
    /\ "latitude" \in DOMAIN gigs.list[2].venue
    /\ "longitude" \notin DOMAIN gigs.list[2].venue
    /\ \E i, i2 \in 1..Len(all_stops) :
          LET nearby == NearbyListOf(all_stops[i])
          IN  /\ Len(nearby) = 2
              /\ nearby[1].name = 3 /\ nearby[2].name = 1
              /\ nearby[1].distance_meters < nearby[2].distance_meters
              /\ NearbyListOf(all_stops[i2]) = <<>>

\* the indices of the stops with at least one gig within the radius
NearIndices ==
    SelectSeq([i \in 1..Len(all_stops) |-> i],
              LAMBDA i : \E j \in 1..Len(gigs.list) : IsNear(i, j))

\* C8: find_nearby_gigs_for_stops returns exactly the input stops with at
\* least one nearby gig, in input order, and any_gigs_found is true if and
\* only if some stop has a non-empty nearby list, that is if and only if
\* the returned list is not empty
C8_ReturnsStopsWithGigs ==
    pc = "nearby_done" =>
        /\ view.stops_with_gigs =
              [k \in 1..Len(NearIndices) |-> all_stops[NearIndices[k]]]
        /\ view.any_gigs_found <=> view.stops_with_gigs /= <<>>
        /\ view.any_gigs_found <=>
              \E i \in 1..Len(all_stops) : NearbyListOf(all_stops[i]) /= <<>>

\* of two input stops only the second has a nearby gig and is returned
C8_Witness ==
    /\ pc = "nearby_done"
    /\ Len(all_stops) = 2
    /\ NearbyListOf(all_stops[1]) = <<>>
    /\ NearbyListOf(all_stops[2]) /= <<>>
    /\ view.stops_with_gigs = <<all_stops[2]>>
    /\ view.any_gigs_found

----------------------------------------------------------------------------
(* show_gigs_ahead *)

\* stops_data['stops_by_direction'].get(direction_id, [])
StopsInDirection(by_direction, d) ==
    IF d \in DOMAIN by_direction THEN by_direction[d] ELSE <<>>

\* the index of the first stop with the requested identifier, 0 without one
CurrentIndex(list, id) ==
    LET matching == { i \in 1..Len(list) : list[i].stop_id = id }
    IN  IF matching = {} THEN 0
        ELSE CHOOSE i \in matching : \A k \in matching : i <= k

\* a stop without raw sequence counts as beyond every stop
RawOrSentinel(stop) ==
    IF "stop_sequence" \in DOMAIN stop THEN stop.stop_sequence ELSE Sentinel

\* stop.get('stop_sequence', 0)
RawOrZero(stop) ==
    IF "stop_sequence" \in DOMAIN stop THEN stop.stop_sequence ELSE 0

\* a stop level with the current stop counts as ahead
IsAheadOrLevel(sequence, current_sequence) == sequence >= current_sequence

\* stop.get('stop_sequence', 0) > current_sequence
IsAhead(sequence, current_sequence) == sequence > current_sequence

\* the indices of the stops the second loop searches, in list order
AheadIndices(list, current_sequence) ==
    SelectSeq([i \in 1..Len(list) |-> i],
              LAMBDA i : IsAhead(RawOrZero(list[i]), current_sequence))

\* the elements of a sequence
Range(q) == { q[k] : k \in 1..Len(q) }

\* the error view of a gigs handler
ErrorView(message) == [NoView EXCEPT !.error = message]

\* a stop of a listing for the gigs_ahead requests: stop 1 lies at grid
\* point 1, stop 2 at grid point 3
AheadListed ==
    LET at == <<1, 3>>
    IN  { [stop_id |-> i, stop_name |-> "stop", stop_sequence |-> r,
           stop_latitude |-> Latitudes[at[i]],
           stop_longitude |-> Longitudes[at[i]]]
            : i \in StopIds, r \in RawSeqs }
        \cup
        { [stop_id |-> i, stop_name |-> "stop",
           stop_latitude |-> Latitudes[at[i]],
           stop_longitude |-> Longitudes[at[i]]]
            : i \in StopIds }

\* what get_route_stops stores for a direction whose stops got no details
DirectionResult(map, listing, d) ==
    ValidStops(SortStops(
        [i \in 1..Len(listing) |->
            EnrichedStop(map, listing[i], d, "failed", [station_type |-> "tram"])]))

\* a gigs_ahead request is about to run: get_route_stops has returned None,
\* or the stops of direction 1 under an empty or a full pattern map;
\* get_todays_gigs has returned None, no gig, or a gig at grid point 2
InitAhead ==
    /\ pc = "ahead"
    /\ RouteIdle
    /\ CacheIdle
    /\ details_overlay = FALSE
    /\ \/ /\ retval = "None"
          /\ stops_by_direction = EmptyMap
       \/ /\ retval = "stops_data"
          /\ \E listing \in SeqsUpTo(AheadListed, MaxStops + 1) :
             \E departures \in { <<>>, << [stop_id |-> 1, stop_sequence |-> 3],
                                         [stop_id |-> 2, stop_sequence |-> 1] >> } :
                stops_by_direction =
                    DictSet(EmptyMap, 1,
                            DirectionResult(BuildSequenceMap(EmptyMap, departures),
                                            listing, 1))
    /\ gigs \in { [failed |-> TRUE, list |-> <<>>],
                  [failed |-> FALSE, list |-> <<>>],
                  [failed |-> FALSE, list |-> GigsAt(<<VenueAt(2)>>)] }
    /\ request \in [stop_id : StopIds \cup {3}, direction_id : {1, 2}]
    /\ all_stops = <<>>
    /\ view = NoView
    /\ examined = <<>>

\* the handler of /gigs_ahead/<route_id>/<route_type>/<stop_id>/<direction_id>
ShowGigsAhead ==
    /\ pc = "ahead"
    /\ pc' = "ahead_done"
    /\ LET list == StopsInDirection(stops_by_direction, request.direction_id)
           current == CurrentIndex(list, request.stop_id)
       IN  IF retval /= "stops_data"
           THEN /\ view' = ErrorView("Could not find stops for route")
                /\ UNCHANGED <<examined, stops_by_direction>>
           ELSE IF gigs.failed
           THEN /\ view' = ErrorView("Could not fetch gigs data")
                /\ UNCHANGED <<examined, stops_by_direction>>
           ELSE IF current = 0 \/ "stop_sequence" \notin DOMAIN list[current]
           THEN /\ view' = ErrorView("Could not find stop")
                /\ UNCHANGED <<examined, stops_by_direction>>
           ELSE LET current_sequence == list[current].stop_sequence
                    searched_at == <<current>> \o AheadIndices(list, current_sequence)
                    searched == [i \in 1..Len(list) |->
                                    IF i \in Range(searched_at)
                                    THEN Searched(list[i], gigs.list)
                                    ELSE list[i]]
                    kept == SelectSeq(searched_at,
                                      LAMBDA i : Kept(list[i], gigs.list))
                IN  /\ view' = [error |-> "",
                                current_stop |-> <<searched[current]>>,
                                stops_with_gigs |->
                                    [k \in 1..Len(kept) |-> searched[kept[k]]],
                                any_gigs_found |-> kept /= <<>>]
                    /\ examined' = searched_at
                    /\ stops_by_direction' =
                           DictSet(stops_by_direction, request.direction_id,
                                   searched)
    /\ UNCHANGED <<retval, routeVars, gigs, request, all_stops, cacheVars>>

NextAhead == ShowGigsAhead

SpecAhead == InitAhead /\ [][NextAhead]_vars

----------------------------------------------------------------------------
(* Properties of show_gigs_ahead *)

\* the stops of the requested direction, as the handler leaves them
RequestedStops == StopsInDirection(stops_by_direction, request.direction_id)

\* the positions of the stops carrying the requested identifier
Matching ==
    { i \in 1..Len(RequestedStops) : RequestedStops[i].stop_id = request.stop_id }

\* the position of the target stop, the first match
Target == CHOOSE i \in Matching : \A k \in Matching : i <= k

\* the handler got stops data and gigs, and has finished
AheadServed ==
    /\ pc = "ahead_done"
    /\ retval = "stops_data"
    /\ ~gigs.failed

\* the raw sequence of a stop in the comparison, 0 when the stop has none
ComparedSequence(stop) == IF HasRaw(stop) THEN stop.stop_sequence ELSE 0

\* the positions of the stops other than the target that lie ahead of it
AheadOfTarget ==
    { i \in 1..Len(RequestedStops) :
        /\ i /= Target
        /\ ComparedSequence(RequestedStops[i])
               > ComparedSequence(RequestedStops[Target]) }

\* the examined stops that have a gig within the radius, in examination order
ExaminedWithGigs ==
    SelectSeq(examined,
              LAMBDA i : \E j \in 1..Len(gigs.list) :
                  /\ HasCoordinates(gigs.list[j].venue)
                  /\ StopDistance(RequestedStops[i], gigs.list[j].venue)
                         <= NearbyRadius * 1000)

\* nothing was examined and the view says the stop could not be found
StopNotFound ==
    /\ view.error = "Could not find stop"
    /\ examined = <<>>
    /\ view.stops_with_gigs = <<>>
    /\ ~view.any_gigs_found

\* the target was examined first, then exactly the stops ahead of it, each
\* once, and the view lists the examined stops that have a gig nearby
TargetAndAheadExamined ==
    /\ view.error = ""
    /\ examined /= <<>>
    /\ examined[1] = Target
    /\ Range(examined) = {Target} \cup AheadOfTarget
    /\ Len(examined) = Cardinality(Range(examined))
    /\ view.stops_with_gigs =
           [k \in 1..Len(ExaminedWithGigs) |-> RequestedStops[ExaminedWithGigs[k]]]

\* C9 as stated: whenever some stop of the direction carries the requested
\* identifier, the target and exactly the stops with a strictly greater raw
\* sequence are examined; the error is reported only when no stop matches.
C9_ExaminedWheneverMatched ==
    AheadServed =>
        IF Matching = {} THEN StopNotFound ELSE TargetAndAheadExamined

\* C9: in show_gigs_ahead, when a stop of the direction carries the
\* requested identifier and the first such stop has a raw stop_sequence, the
\* stops examined for nearby gigs are exactly that target stop, first, plus
\* every other stop of the direction whose raw stop_sequence (0 for a stop
\* without one) is strictly greater than the target's; when no stop matches,
\* or the matching stop has no raw stop_sequence, the error "Could not find
\* stop" is reported and no stop is examined.
C9_ExaminedTargetAndAhead ==
    AheadServed =>
        IF Matching = {} \/ ~HasRaw(RequestedStops[Target])
        THEN StopNotFound
        ELSE TargetAndAheadExamined

\* a target with raw sequence 1 is followed by a stop with a greater raw
\* sequence and preceded by one with a smaller, and only the first two are
\* examined
C9_Witness ==
    /\ AheadServed
    /\ Matching /= {}
    /\ HasRaw(RequestedStops[Target])
    /\ Len(RequestedStops) = 3
    /\ Len(examined) = 2
    /\ \E i \in 1..3 :
          /\ i \notin Range(examined)
          /\ HasRaw(RequestedStops[i])
          /\ RequestedStops[i].stop_sequence
                 < RequestedStops[Target].stop_sequence
    /\ Len(view.stops_with_gigs) = 2

\* C10: in show_gigs_ahead, a stop other than the target that has no raw
\* stop_sequence is compared as sequence 0: it is examined if and only if
\* the target has a raw stop_sequence and that sequence is negative, so it
\* is never examined when the target's sequence is zero or positive, nor
\* when the target has no raw sequence either.
C10_NoSequenceComparedAsZero ==
    (AheadServed /\ Matching /= {}) =>
        \A i \in 1..Len(RequestedStops) :
            (i /= Target /\ ~HasRaw(RequestedStops[i])) =>
                (i \in Range(examined) <=>
                    /\ HasRaw(RequestedStops[Target])
                    /\ RequestedStops[Target].stop_sequence < 0)

\* a stop without raw sequence is examined behind a target of sequence -1
C10_Witness ==
    /\ AheadServed
    /\ Matching /= {}
    /\ HasRaw(RequestedStops[Target])
    /\ RequestedStops[Target].stop_sequence = -1
    /\ Len(RequestedStops) = 2
    /\ \E i \in 1..Len(RequestedStops) :
          /\ i /= Target
          /\ ~HasRaw(RequestedStops[i])
          /\ i \in Range(examined)
          /\ "nearby_gigs" \in DOMAIN RequestedStops[i]

----------------------------------------------------------------------------
(* Properties of the enrichment in get_route_stops *)

\* C11: every iteration of the loop over stops leaves the stop with the
\* stop_id the stop listing gave it and with the direction_id and
\* direction_name of the direction being processed, whatever the details
\* record holds, and a pattern sequence is looked up under the listing's
\* stop_id.
C11_IdentifiersKept ==
    [][ pc = "enrich" =>
          LET listed == stops[stop_idx]
              enriched == stops'[stop_idx]
              d == directions[dir_idx]
          IN  /\ enriched.stop_id = listed.stop_id
              /\ enriched.direction_id = d
              /\ enriched.direction_name = DirectionName(d)
              /\ listed.stop_id \in DOMAIN sequence_map
                    => enriched.absolute_sequence = sequence_map[listed.stop_id]
      ]_vars

\* a reconciled stop of the current direction carries another direction's
\* direction_id, taken from its details record
C11_Witness ==
    /\ pc = "sort"
    /\ details_status = "ok"
    /\ \E stop \in Reconciled :
          /\ stop.direction_id /= directions[dir_idx]
          /\ stop.direction_name /= DirectionName(directions[dir_idx])

----------------------------------------------------------------------------
(* Properties of the result of get_route_stops *)

\* C13: when get_route_stops returns stops_data, stops_by_direction has an
\* entry, a possibly empty list, for every direction of the result's
\* directions.
C13_EveryDirectionHasEntry ==
    retval = "stops_data" =>
        \A i \in 1..Len(directions) :
            directions[i] \in DOMAIN stops_by_direction

\* stops_data is returned with two directions, the first without entry in
\* stops_by_direction, the second with a stop
C13_Witness ==
    /\ pc = "done"
    /\ retval = "stops_data"
    /\ Len(directions) = 2
    /\ directions[1] \notin DOMAIN stops_by_direction
    /\ directions[2] \in DOMAIN stops_by_direction
    /\ stops_by_direction[directions[2]] /= <<>>

----------------------------------------------------------------------------
(* get_route_stops: calls in sequence, through the cache *)

\* the (route_id, route_type) pairs of the requests
Routes == { <<1, 1>>, <<1, 12>>, <<11, 2>> }

\* the clock is read in steps of this many hours
TickHours == 12

\* the stops_by_direction a computation may end with: one direction, whose
\* listing holds one stop with raw sequence 1 or 2, or none
ComputedStops ==
    { DictSet(EmptyMap, 1, DirectionResult(EmptyMap, <<stop>>, 1))
        : stop \in StopsWith({1}, {1, 2}) }

\* no call has been made and the cache directory is empty
InitCache ==
    /\ pc = "idle"
    /\ RouteIdle
    /\ details_overlay = FALSE
    /\ stops_by_direction = EmptyMap
    /\ retval = "pending"
    /\ GigsIdle
    /\ CacheIdle

\* a call starts: the cache lookup, and the return of the cached data when
\* there is any (stops_data is a dict with three keys, so it is truthy)
GetRouteStopsEntry ==
    /\ pc \in {"idle", "done"}
    /\ \E route \in Routes :
          LET key == CacheKey(route[1], route[2])
              cached_data == get_cached_data(cache, key, now)
          IN  /\ call' = CallOf(key, cache, now)
              /\ IF cached_data /= <<>>
                 THEN /\ retval' = "stops_data"
                      /\ directions' = cached_data[1].directions
                      /\ stops_by_direction' = cached_data[1].stops_by_direction
                      /\ pc' = "done"
                 ELSE /\ retval' = "pending"
                      /\ directions' = <<>>
                      /\ stops_by_direction' = EmptyMap
                      /\ pc' = "compute"
    /\ UNCHANGED <<dir_idx, sequence_map, stops, stop_idx, pattern_status,
                   stops_status, details_status, fetched, details_overlay>>
    /\ UNCHANGED <<gigVars, cache, now>>

\* the computation after a cache miss, which Spec takes step by step, in
\* one step: the route-name request is always made; the call returns None
\* (no directions, or a stop-list request raised) or reaches save_to_cache
ComputeStopsData ==
    /\ pc = "compute"
    /\ call' = [call EXCEPT !.upstream = 1]
    /\ \/ /\ retval' = "None"
          /\ pc' = "done"
          /\ UNCHANGED <<directions, stops_by_direction>>
       \/ \E computed \in ComputedStops :
             /\ directions' = <<1>>
             /\ stops_by_direction' = computed
             /\ pc' = "save"
             /\ UNCHANGED retval
    /\ UNCHANGED <<dir_idx, sequence_map, stops, stop_idx, pattern_status,
                   stops_status, details_status, fetched, details_overlay>>
    /\ UNCHANGED <<gigVars, cache, now>>

\* time passes between calls and while a call waits for upstream
Tick ==
    /\ pc \in {"idle", "done", "compute"}
    /\ now < MaxTicks * TickHours
    /\ now' = now + TickHours
    /\ UNCHANGED <<pc, stops_by_direction, retval, routeVars, gigVars,
                   cache, call>>

NextCache ==
    \/ GetRouteStopsEntry
    \/ ComputeStopsData
    \/ ReturnStopsData
    \/ Tick

SpecCache == InitCache /\ [][NextCache]_vars

----------------------------------------------------------------------------
(* Properties of the cache *)

\* a call has returned
CallReturned == pc = "done" /\ call.key /= <<>>

\* the call found an intact route-stops file for its key
FoundSnapshot ==
    /\ call.key \in DOMAIN call.before
    /\ call.before[call.key].intact

\* the age, at the lookup, of the snapshot the call found
SnapshotAge == call.checked_at - call.before[call.key].timestamp

\* the cache holds what it held when the call started
CacheUntouched == cache = call.before

\* the cache differs from what the call found in the file of its key only
OnlyOwnFileWritten ==
    /\ call.key \in DOMAIN cache
    /\ \A k \in (DOMAIN cache \cup DOMAIN call.before) \ {call.key} :
          /\ k \in DOMAIN cache
          /\ k \in DOMAIN call.before
          /\ cache[k] = call.before[k]

\* requests for different (route id, route type) pairs use different files
KeysDistinguishRoutes ==
    \A r1, r2 \in Routes :
        CacheKey(r1[1], r1[2]) = CacheKey(r2[1], r2[2]) => r1 = r2

\* C12: a get_route_stops call that finds a snapshot for its
\* (route id, route type) key captured less than 24 hours before returns
\* that snapshot's data without any upstream request and without writing;
\* a call that finds a snapshot 24 hours old or older makes its requests
\* upstream and does not return the snapshot; a call that returns None
\* leaves the cache as it found it, and a call that changes the cache
\* returns stops_data from upstream and writes the file of its own key
\* only; different (route id, route type) pairs have different keys.
C12_FreshnessWindow ==
    /\ KeysDistinguishRoutes
    /\ CallReturned =>
        /\ (FoundSnapshot /\ SnapshotAge < ExpiryHours) =>
              /\ retval = "stops_data"
              /\ StopsData = call.before[call.key].data
              /\ call.upstream = 0
              /\ CacheUntouched
        /\ (FoundSnapshot /\ SnapshotAge >= ExpiryHours) =>
              /\ call.upstream > 0
              /\ retval = "stops_data" =>
                    \/ CacheUntouched
                    \/ ~cache[call.key].intact
                    \/ /\ cache[call.key].data = StopsData
                       /\ cache[call.key].timestamp >= call.checked_at
        /\ retval = "None" => CacheUntouched
        /\ ~CacheUntouched =>
              /\ retval = "stops_data"
              /\ call.upstream > 0
              /\ OnlyOwnFileWritten

\* a call returned, without a request, the 12 hours old snapshot of its
\* key, while the cache holds other data for the same route under the
\* other route type
C12_Witness ==
    /\ CallReturned
    /\ FoundSnapshot
    /\ SnapshotAge = 12
    /\ retval = "stops_data"
    /\ call.upstream = 0
    /\ call.key = CacheKey(1, 1)
    /\ StopsData = cache[call.key].data
    /\ stops_by_direction[1] /= <<>>
    /\ CacheKey(1, 12) \in DOMAIN cache
    /\ cache[CacheKey(1, 12)].intact
    /\ cache[CacheKey(1, 12)].data /= StopsData

====
